---- MODULE Spec2Model ----
(***************************************************************************)
(* Model of the data-visualisation assistant: the file loader and          *)
(* descriptor (data_processor.py), the three prompting steps and the       *)
(* proposal pipeline (llm_handler.py), the deterministic renderer          *)
(* (visualization.py) and the Streamlit script's session (src/app.py).     *)
(*                                                                         *)
(* Python values are modelled structurally:                                *)
(*   - a dict is a record whose DOMAIN is the set of keys it holds;        *)
(*   - a list is a sequence; a str made by an f-string is the sequence of  *)
(*     its literal and interpolated parts;                                 *)
(*   - a call's outcome is Ret(v) or Raise(type, msg).                     *)
(***************************************************************************)
EXTENDS Integers, Sequences, FiniteSets, TLC

VARIABLES
    call,       \* the last library call made on its own (SpecCalls)
    GEMINI_API_KEY, \* whether the credential is set in the process environment
    session,    \* st.session_state: a dict with keys proposals, data_info, df, figs
    pc,         \* where the script run is: idle (between runs), loop, select
    loop_i,     \* index of the proposal the rendering loop is at
    selected,   \* the option chosen in the viz_selector radio
    last_slot,  \* the last finished iteration of the rendering loop
    run,        \* the current script run: what the upload did, which steps it called
    pipe        \* one call of generate_visualization_proposals, statement by statement

vars == <<call, GEMINI_API_KEY, session, pc, loop_i, selected, last_slot, run, pipe>>

appVars == <<GEMINI_API_KEY, session, pc, loop_i, selected, last_slot, run, pipe>>

\* what a step of the pipeline leaves alone
scriptVars == <<call, GEMINI_API_KEY, session, pc, loop_i, selected, last_slot, run>>

(***************************************************************************)
(* Bounds of the model.                                                    *)
(***************************************************************************)
MaxCols == 2
MaxRows == 2
\* longest service response text, in tokens
MaxTextLen == 4
\* longest proposal list a service response carries
MaxProposals == 3
\* largest num_proposals asked of the pipeline
MaxN == 3

(***************************************************************************)
(* Call outcomes.                                                          *)
(***************************************************************************)
Ret(v) == [raised |-> FALSE, val |-> v]

Raise(type, msg) == [raised |-> TRUE, exc |-> [type |-> type, msg |-> msg]]

\* str(e) of a caught exception
StrOf(e) == e.msg

Range(s) == {s[i] : i \in 1..Len(s)}

Contains(text, part) == \E i \in 1..Len(text) : text[i] = part

\* s[:k] of a Python list
Take(s, k) == SubSeq(s, 1, IF Len(s) < k THEN Len(s) ELSE k)

RECURSIVE SeqsUpTo(_, _)
SeqsUpTo(S, n) ==
    IF n = 0 THEN {<<>>}
    ELSE LET shorter == SeqsUpTo(S, n - 1)
         IN shorter \cup {Append(s, x) : s \in {q \in shorter : Len(q) = n - 1}, x \in S}

(***************************************************************************)
(* data_processor.py                                                       *)
(***************************************************************************)
ColNames == {"age", "city"}

\* pandas renames a repeated header cell: name, name.1, name.2, ...
DupName ==
    [age  |-> <<"age", "age.1", "age.2", "age.3">>,
     city |-> <<"city", "city.1", "city.2", "city.3">>]

\* An uploaded file: the extension of its name, what its bytes really are,
\* and (when they are a table) its header cells, the kind of each column's
\* cells and the number of data rows.
Files ==
    UNION {{[ext |-> e, format |-> fm, header |-> h, kinds |-> k, nrows |-> n] :
                e \in {"csv", "xlsx", "txt"}, fm \in {"csv", "xlsx", "other"},
                k \in [1..Len(h) -> {"num", "text"}], n \in 0..MaxRows} :
           h \in SeqsUpTo(ColNames, MaxCols)}

KindOf(f, i) == f.kinds[i]

MangleDupeCols(h) ==
    [i \in 1..Len(h) |-> DupName[h[i]][1 + Cardinality({j \in 1..(i - 1) : h[j] = h[i]})]]

\* The DataFrame a reader builds from a table: column labels, one dtype per
\* column (object when there is no cell to infer from), and the row count.
Frame(f) ==
    [columns |-> MangleDupeCols(f.header),
     dtypes  |-> [i \in 1..Len(f.header) |->
                    IF f.nrows > 0 /\ KindOf(f, i) = "num" THEN "int64" ELSE "object"],
     nrows   |-> IF Len(f.header) = 0 THEN 0 ELSE f.nrows]

ReadCsv(f) ==
    IF f.format # "csv" THEN Raise("ParserError", <<"Error tokenizing data">>)
    ELSE IF Len(f.header) = 0
         THEN Raise("EmptyDataError", <<"No columns to parse from file">>)
         ELSE Ret(Frame(f))

ReadExcel(f) ==
    IF f.format # "xlsx" THEN Raise("BadZipFile", <<"File is not a zip file">>)
    ELSE Ret(Frame(f))

\* DataFrame.empty: any axis of length 0
DfEmpty(df) == df.nrows = 0 \/ Len(df.columns) = 0

\* the basic validation of load_data without the emptiness check
ValidateLoadedKeepEmpty(df) ==
    IF Len(df.columns) = 0
    THEN Raise("ValueError", <<"The uploaded file has no columns">>)
    ELSE Ret(df)

ValidateLoaded(df) ==
    IF DfEmpty(df) THEN Raise("ValueError", <<"The uploaded file is empty">>)
    ELSE IF Len(df.columns) = 0
         THEN Raise("ValueError", <<"The uploaded file has no columns">>)
         ELSE Ret(df)

\* load_data without its outer except: the reader's or the validation's
\* own exception reaches the caller
load_data_unwrapped(f) ==
    LET read == IF f.ext = "csv" THEN ReadCsv(f)
                ELSE IF f.ext \in {"xlsx", "xls"} THEN ReadExcel(f)
                ELSE IF ReadCsv(f).raised
                     THEN Raise("ValueError", <<"Unsupported file format: ", f.ext>>)
                     ELSE ReadCsv(f)
    IN  IF read.raised THEN read ELSE ValidateLoaded(read.val)

\* lines 13-47: read by extension, validate, and wrap any error
load_data(f) ==
    LET read  == IF f.ext = "csv" THEN ReadCsv(f)
                 ELSE IF f.ext \in {"xlsx", "xls"} THEN ReadExcel(f)
                 ELSE IF ReadCsv(f).raised
                      THEN Raise("ValueError", <<"Unsupported file format: ", f.ext>>)
                      ELSE ReadCsv(f)
         inner == IF read.raised THEN read ELSE ValidateLoaded(read.val)
    IN  IF inner.raised
        THEN Raise("ValueError", <<"Error loading data: ">> \o StrOf(inner.exc))
        ELSE inner

\* a descriptor that reports (columns, rows) instead of (rows, columns)
get_data_info_shape_swapped(df) ==
    [columns |-> df.columns,
     dtypes  |-> [c \in Range(df.columns) |->
                    df.dtypes[CHOOSE i \in 1..Len(df.columns) :
                        df.columns[i] = c /\ \A j \in (i + 1)..Len(df.columns) : df.columns[j] # c]],
     shape   |-> <<Len(df.columns), df.nrows>>,
     summary |-> [c \in Range(df.columns) |-> "describe"]]

get_data_info(df) ==
    [columns |-> df.columns,
     dtypes  |-> [c \in Range(df.columns) |->
                    df.dtypes[CHOOSE i \in 1..Len(df.columns) :
                        df.columns[i] = c /\ \A j \in (i + 1)..Len(df.columns) : df.columns[j] # c]],
     shape   |-> <<df.nrows, Len(df.columns)>>,
     summary |-> [c \in Range(df.columns) |-> "describe"]]

(***************************************************************************)
(* llm_handler.py: the service, its response text, and JSON extraction     *)
(***************************************************************************)
KeyMsg == "GEMINI_API_KEY not set. Please check your .env file."

\* a _get_model that does not check the credential
get_model_unchecked(api_key) == Ret("gemini-2.5-flash")

\* _get_model: api_key is whether GEMINI_API_KEY is set in the environment
get_model(api_key) ==
    IF ~api_key THEN Raise("ValueError", <<KeyMsg>>) ELSE Ret("gemini-2.5-flash")

\* Python values that may be a list or something else (as JSON decodes them)
PyList(items) == [pytype |-> "list", items |-> items]
PyStr(n) == [pytype |-> "str", len |-> n]
PyDict(n) == [pytype |-> "dict", len |-> n]
PyNum == [pytype |-> "num"]

\* a list element that is not a dict (a JSON string, number, list or null)
NonDict == [pytype |-> "str"]
IsDict(p) == "pytype" \notin DOMAIN p

EmptyDict == [k \in {} |-> k]

\* d[key] = value on a dict
SetItem(d, key, value) ==
    [k \in DOMAIN d \cup {key} |-> IF k = key THEN value ELSE d[k]]

\* Tokens of a response text.  Members(o) is the text between the outer
\* braces of a JSON object that decodes to the dict o (inner braces included).
LB == [t |-> "{"]
RB == [t |-> "}"]
NL == [t |-> "\n"]
TXT == [t |-> "txt"]
Members(o) == [t |-> "members", obj |-> o]

IsSpace(tok) == tok.t = "\n"

\* str.strip()
Strip(text) ==
    LET keep == {i \in 1..Len(text) : ~IsSpace(text[i])}
    IN  IF keep = {} THEN <<>>
        ELSE SubSeq(text, CHOOSE i \in keep : \A j \in keep : i <= j,
                          CHOOSE i \in keep : \A j \in keep : j <= i)

\* re.search(r'\{.*\}', raw, re.DOTALL): the leftmost "{" that has a "}"
\* after it, and greedily up to the last "}" of the text; <<>> when no match
ReSearchBraces(raw) ==
    LET opens  == {i \in 1..Len(raw) : raw[i].t = "{"}
        closes == {j \in 1..Len(raw) : raw[j].t = "}"}
    IN  IF opens = {} THEN <<>>
        ELSE LET first == CHOOSE i \in opens : \A k \in opens : i <= k
                 after == {j \in closes : j > first}
             IN  IF after = {} THEN <<>>
                 ELSE SubSeq(raw, first, CHOOSE j \in after : \A k \in after : k <= j)

\* messages of json.JSONDecodeError (the position that follows is left out)
JsonErrors ==
    {<<"Expecting property name enclosed in double quotes">>,
     <<"Expecting ',' delimiter">>,
     <<"Extra data">>}

\* json.loads that decodes whatever it can and never raises
json_loads_lenient(span) ==
    LET body == SelectSeq(SubSeq(span, 2, Len(span) - 1), LAMBDA tok : ~IsSpace(tok))
    IN  IF Len(body) >= 1 /\ body[1].t = "members" THEN Ret(body[1].obj)
        ELSE Ret(EmptyDict)

\* json.loads of a span that starts with "{" and ends with "}": the decoder
\* reads one object from the start and rejects what it cannot read or what
\* follows the object
json_loads(span) ==
    LET body == SelectSeq(SubSeq(span, 2, Len(span) - 1), LAMBDA tok : ~IsSpace(tok))
    IN  IF Len(body) = 0 THEN Ret(EmptyDict)
        ELSE IF Len(body) = 1 /\ body[1].t = "members" THEN Ret(body[1].obj)
        ELSE IF body[1].t = "}" \/ (body[1].t = "members" /\ body[2].t = "}")
             THEN Raise("JSONDecodeError", <<"Extra data">>)
        ELSE IF body[1].t = "members"
             THEN Raise("JSONDecodeError", <<"Expecting ',' delimiter">>)
        ELSE Raise("JSONDecodeError",
                   <<"Expecting property name enclosed in double quotes">>)

\* A service call: it fails (network error, blocked response) or yields text
NetworkFailure == [ok |-> FALSE, err |-> <<"503 Service Unavailable">>]
Reply(text) == [ok |-> TRUE, text |-> text]

(***************************************************************************)
(* step1_identify_relevant_columns                                         *)
(***************************************************************************)
\* a fallback that keeps only the first column
Step1FallbackOneColumn(data_info, reasoning) ==
    [relevant_columns |-> PyList(Take(data_info.columns, 1)),
     analysis_reasoning |-> reasoning]

Step1Fallback(data_info, reasoning) ==
    [relevant_columns |-> PyList(Take(data_info.columns, 2)),
     analysis_reasoning |-> reasoning]

NoParseReasoning == <<"Could not parse LLM response, using first two columns.">>

step1_identify_relevant_columns(api_key, resp, data_info) ==
    LET model == get_model(api_key)
    IN  IF model.raised THEN model
        ELSE IF ~resp.ok
             THEN Ret(Step1Fallback(data_info, <<"Error in step 1: ">> \o resp.err))
             ELSE LET json_match == ReSearchBraces(Strip(resp.text))
                      result == json_loads(json_match)
                  IN  IF json_match = <<>>
                      THEN Ret(Step1Fallback(data_info, NoParseReasoning))
                      ELSE IF result.raised
                           THEN Ret(Step1Fallback(data_info,
                                        <<"Error in step 1: ">> \o StrOf(result.exc)))
                           ELSE Ret(result.val)

(***************************************************************************)
(* step2_select_chart_types                                                *)
(***************************************************************************)
VizTypes == {"bar", "line", "scatter", "histogram", "box", "violin", "heatmap", "pie"}

\* a fallback whose histogram also takes the first two columns
Step2FallbackTwoEach(relevant_columns, e) ==
    PyList(<<
        [viz_type |-> "bar",
         justification |-> <<"Fallback: Bar chart for comparison. Error: ">> \o StrOf(e),
         columns_to_use |-> Take(relevant_columns.items, 2)],
        [viz_type |-> "scatter",
         justification |-> <<"Fallback: Scatter plot for relationships.">>,
         columns_to_use |-> Take(relevant_columns.items, 2)],
        [viz_type |-> "histogram",
         justification |-> <<"Fallback: Histogram for distribution.">>,
         columns_to_use |-> Take(relevant_columns.items, 2)] >>)

\* lines 140-158: the except branch of step 2
Step2Fallback(relevant_columns, e) ==
    PyList(<<
        [viz_type |-> "bar",
         justification |-> <<"Fallback: Bar chart for comparison. Error: ">> \o StrOf(e),
         columns_to_use |-> Take(relevant_columns.items, 2)],
        [viz_type |-> "scatter",
         justification |-> <<"Fallback: Scatter plot for relationships.">>,
         columns_to_use |-> Take(relevant_columns.items, 2)],
        [viz_type |-> "histogram",
         justification |-> <<"Fallback: Histogram for distribution.">>,
         columns_to_use |-> Take(relevant_columns.items, 1)] >>)

step2_select_chart_types(api_key, resp, data_info, relevant_columns) ==
    LET model == get_model(api_key)
    IN  IF model.raised THEN model
        \* the prompt iterates and joins relevant_columns before the try
        ELSE IF relevant_columns.pytype # "list"
             THEN Raise("TypeError", <<"object is not iterable">>)
        ELSE IF ~resp.ok
             THEN Ret(Step2Fallback(relevant_columns, [type |-> "Exception", msg |-> resp.err]))
             ELSE LET json_match == ReSearchBraces(Strip(resp.text))
                      result == json_loads(json_match)
                  IN  IF json_match = <<>>
                      THEN Ret(Step2Fallback(relevant_columns,
                                   [type |-> "ValueError",
                                    msg |-> <<"Could not parse JSON response">>]))
                      ELSE IF result.raised
                           THEN Ret(Step2Fallback(relevant_columns, result.exc))
                           ELSE IF "proposals" \notin DOMAIN result.val
                                THEN Ret(Step2Fallback(relevant_columns,
                                             [type |-> "KeyError", msg |-> <<"'proposals'">>]))
                                ELSE Ret(result.val.proposals)

(***************************************************************************)
(* step3_generate_plotting_code                                            *)
(***************************************************************************)
\* a code-fence marker (three backticks)
FENCE == [t |-> "fence"]
PY == [t |-> "python"]
CODE == [t |-> "code"]
RETFIG == [t |-> "return fig"]
RETOTHER == [t |-> "return figure"]
PASS == [t |-> "pass  # fig already assigned"]

\* the text after a run of whitespace that starts at position i
DropSpaceFrom(text, i) ==
    LET rest == {j \in i..Len(text) : ~IsSpace(text[j])}
    IN  IF rest = {} THEN <<>>
        ELSE SubSeq(text, CHOOSE j \in rest : \A k \in rest : j <= k, Len(text))

\* re.sub: a leading fence marker followed by python and whitespace
StripFencePython(code) ==
    IF Len(code) >= 2 /\ code[1].t = "fence" /\ code[2].t = "python"
    THEN DropSpaceFrom(code, 3) ELSE code

\* re.sub: a leading fence marker and the whitespace after it
StripFenceOpen(code) ==
    IF Len(code) >= 1 /\ code[1].t = "fence" THEN DropSpaceFrom(code, 2) ELSE code

\* re.sub: a trailing fence marker and the whitespace before it
StripFenceClose(code) ==
    IF Len(code) >= 1 /\ code[Len(code)].t = "fence"
    THEN LET before == {j \in 1..(Len(code) - 1) : ~IsSpace(code[j])}
         IN  IF before = {} THEN <<>>
             ELSE SubSeq(code, 1, CHOOSE j \in before : \A k \in before : k <= j)
    ELSE code

\* re.sub(r'\breturn\s+fig\b', 'pass  # fig already assigned', code)
RewriteReturnFig(code) ==
    [i \in 1..Len(code) |-> IF code[i].t = "return fig" THEN PASS ELSE code[i]]

\* str.capitalize() of a chart kind
Capitalize(viz_type) ==
    CASE viz_type = "bar" -> "Bar"
      [] viz_type = "line" -> "Line"
      [] viz_type = "scatter" -> "Scatter"
      [] viz_type = "histogram" -> "Histogram"
      [] viz_type = "box" -> "Box"
      [] viz_type = "violin" -> "Violin"
      [] viz_type = "heatmap" -> "Heatmap"
      [] viz_type = "pie" -> "Pie"
      [] viz_type = "area" -> "Area"

\* a fallback that always draws a bar chart
Step3FallbackCodeBar(proposal, data_info, e) ==
    LET cols == IF "columns_to_use" \in DOMAIN proposal
                THEN proposal.columns_to_use ELSE Take(data_info.columns, 2)
    IN  << [t |-> "# Fallback code due to error: ", err |-> StrOf(e)],
           NL,
           [t |-> "fig = px.", viz_type |-> "bar",
            x |-> IF Len(cols) > 0 THEN cols[1] ELSE data_info.columns[1]],
           NL,
           [t |-> "title=", title |-> <<"Bar", " Chart">>],
           NL >>

\* the except branch (lines 230-236): a comment line with the error, then one
\* statement fig = px.<viz_type>(df, x=..., title=...) written over two lines
Step3FallbackCode(proposal, data_info, e) ==
    LET cols == IF "columns_to_use" \in DOMAIN proposal
                THEN proposal.columns_to_use ELSE Take(data_info.columns, 2)
    IN  << [t |-> "# Fallback code due to error: ", err |-> StrOf(e)],
           NL,
           [t |-> "fig = px.", viz_type |-> proposal.viz_type,
            x |-> IF Len(cols) > 0 THEN cols[1] ELSE data_info.columns[1]],
           NL,
           [t |-> "title=", title |-> <<Capitalize(proposal.viz_type), " Chart">>],
           NL >>

step3_generate_plotting_code(api_key, resp, proposal, data_info) ==
    LET model == get_model(api_key)
    IN  IF model.raised THEN model
        \* the prompt reads proposal['viz_type'] before the try
        ELSE IF ~IsDict(proposal)
             THEN Raise("TypeError", <<"string indices must be integers">>)
        ELSE IF "viz_type" \notin DOMAIN proposal
             THEN Raise("KeyError", <<"'viz_type'">>)
        ELSE IF ~resp.ok
             THEN Ret(Step3FallbackCode(proposal, data_info,
                                        [type |-> "Exception", msg |-> resp.err]))
             ELSE Ret(RewriteReturnFig(StripFenceClose(StripFenceOpen(
                          StripFencePython(Strip(resp.text))))))

(***************************************************************************)
(* generate_visualization_proposals                                        *)
(***************************************************************************)
PadProposal(relevant_columns) ==
    [viz_type |-> "bar",
     justification |-> <<"Additional fallback proposal">>,
     columns_to_use |-> Take(relevant_columns.items, 2)]

\* the complete fallback with one entry fewer than asked for
CompleteFallbackShort(data_info, e, num_proposals) ==
    PyList([i \in 1..(num_proposals - 1) |->
        [viz_type |-> "bar",
         justification |-> <<"Error in LLM pipeline: ">> \o StrOf(e) \o <<". Using fallback.">>,
         columns_to_use |-> Take(data_info.columns, 2),
         step1_analysis |-> <<"Error occurred">>]])

CompleteFallback(data_info, e, num_proposals) ==
    PyList([i \in 1..num_proposals |->
        [viz_type |-> "bar",
         justification |-> <<"Error in LLM pipeline: ">> \o StrOf(e) \o <<". Using fallback.">>,
         columns_to_use |-> Take(data_info.columns, 2),
         step1_analysis |-> <<"Error occurred">>]])

\* lines 264-276: pad to num_proposals, tag the first num_proposals with the
\* step 1 reasoning, return proposals[:num_proposals]
PadTagTruncate(proposals, step1_result, num_proposals) ==
    IF proposals.pytype = "num"
    THEN Raise("TypeError", <<"object of type 'int' has no len()">>)
    ELSE IF proposals.pytype # "list"
    THEN IF proposals.len < num_proposals
         THEN Raise("AttributeError", <<"object has no attribute 'append'">>)
         ELSE IF proposals.pytype = "dict"
              THEN Raise("TypeError", <<"unhashable type: 'slice'">>)
              ELSE IF num_proposals > 0
                   THEN Raise("TypeError", <<"'str' object does not support item assignment">>)
                   ELSE Ret(PyStr(0))
    ELSE IF Len(proposals.items) < num_proposals
            /\ step1_result.relevant_columns.pytype # "list"
    THEN Raise("TypeError", <<"object is not subscriptable">>)
    ELSE LET padded == proposals.items \o
                 [i \in 1..(num_proposals - Len(proposals.items)) |->
                     PadProposal(step1_result.relevant_columns)]
             head == SubSeq(padded, 1, num_proposals)
         IN  IF num_proposals = 0 THEN Ret(PyList(<<>>))
             ELSE IF "analysis_reasoning" \notin DOMAIN step1_result
                  THEN Raise("KeyError", <<"'analysis_reasoning'">>)
             ELSE IF \E i \in 1..Len(head) : ~IsDict(head[i])
                  THEN Raise("TypeError", <<"object does not support item assignment">>)
             ELSE Ret(PyList([i \in 1..Len(head) |->
                         SetItem(head[i], "step1_analysis", step1_result.analysis_reasoning)]))

generate_visualization_proposals(api_key, resp1, resp2, data_info, num_proposals) ==
    LET step1 == step1_identify_relevant_columns(api_key, resp1, data_info)
        step2 == step2_select_chart_types(api_key, resp2, data_info,
                                          step1.val.relevant_columns)
        body  == IF step1.raised THEN step1
                 ELSE IF "relevant_columns" \notin DOMAIN step1.val
                      THEN Raise("KeyError", <<"'relevant_columns'">>)
                 ELSE IF step2.raised THEN step2
                 ELSE PadTagTruncate(step2.val, step1.val, num_proposals)
    IN  IF body.raised
        THEN Ret(CompleteFallback(data_info, body.exc, num_proposals))
        ELSE body

(***************************************************************************)
(* visualization.py: generate_plotly_visualization                         *)
(***************************************************************************)
\* Python's None where a column name is expected
None == "None"

HasCol(df, c) == c \in Range(df.columns)

\* df.select_dtypes(include=[float, int]).columns
NumCols(df) == SelectSeq([i \in 1..Len(df.columns) |-> i],
                         LAMBDA i : df.dtypes[i] \in {"int64", "float64"})

\* df.select_dtypes(include='object').columns
CatCols(df) == SelectSeq([i \in 1..Len(df.columns) |-> i],
                         LAMBDA i : df.dtypes[i] = "object")

\* a plotly express figure: the px function, its x and y, and its title
Fig(px, x, y, title) == [px |-> px, x |-> x, y |-> y, title |-> title]

\* px.<fn>(df, x=x, y=y): every column named must be one of df
PxCall(df, px, x, y, title) ==
    IF (x # None /\ ~HasCol(df, x)) \/ (y # None /\ ~HasCol(df, y))
    THEN Raise("ValueError", <<"Value of a column argument is not the name of a column">>)
    ELSE Ret(Fig(px, x, y, title))

\* df[col] ... value_counts(): the column must exist
CountsOf(df, px, col, title) ==
    IF ~HasCol(df, col) THEN Raise("KeyError", <<col>>)
    ELSE Ret(Fig(px, col, "count", title))

\* line 173: the default for an unknown chart kind
DefaultChart(df, viz_type) ==
    PxCall(df, "bar", df.columns[1], None, <<"Default Chart: ", df.columns[1]>>)

\* lines 29-173: the dispatch on viz_type, inside the try
ChartBranch(df, viz_type, x_col, y_col) ==
    LET num == NumCols(df)
        cat == CatCols(df)
        firstCat == IF Len(cat) > 0 THEN df.columns[cat[1]] ELSE df.columns[1]
        firstNum == IF Len(num) > 0 THEN df.columns[num[1]] ELSE df.columns[1]
    IN  CASE viz_type = "bar" ->
                IF x_col # None /\ y_col # None
                THEN IF ~HasCol(df, x_col) THEN Raise("KeyError", <<x_col>>)
                     ELSE PxCall(df, "bar", x_col, y_col, <<y_col, " by ", x_col>>)
                ELSE IF x_col # None
                     THEN CountsOf(df, "bar", x_col, <<"Top 15 ", x_col, " (by Count)">>)
                     ELSE CountsOf(df, "bar", firstCat, <<"Top 15 ", firstCat>>)
          [] viz_type = "line" ->
                IF x_col # None /\ y_col # None
                THEN IF ~HasCol(df, x_col) THEN Raise("KeyError", <<x_col>>)
                     ELSE PxCall(df, "line", x_col, y_col, <<y_col, " over ", x_col>>)
                ELSE IF Len(num) > 0
                     THEN LET y_target == IF y_col # None THEN y_col ELSE df.columns[num[1]]
                          IN  PxCall(df, "line", None, y_target, <<"Trend of ", y_target>>)
                     ELSE Raise("ValueError", <<"No numeric columns for line plot">>)
          [] viz_type = "scatter" ->
                IF x_col # None /\ y_col # None
                THEN PxCall(df, "scatter", x_col, y_col,
                            <<"Relationship: ", x_col, " vs ", y_col>>)
                ELSE IF Len(num) >= 2
                     THEN LET x_target == IF x_col # None THEN x_col ELSE df.columns[num[1]]
                              y_target == IF y_col # None THEN y_col ELSE df.columns[num[2]]
                          IN  PxCall(df, "scatter", x_target, y_target,
                                     <<x_target, " vs ", y_target>>)
                     ELSE Raise("ValueError",
                                <<"Need at least 2 numeric columns for scatter plot">>)
          [] viz_type = "histogram" ->
                IF x_col # None
                THEN PxCall(df, "histogram", x_col, None, <<"Distribution of ", x_col>>)
                ELSE PxCall(df, "histogram", firstNum, None, <<"Distribution of ", firstNum>>)
          [] viz_type \in {"box", "violin"} ->
                IF y_col # None
                THEN PxCall(df, viz_type, x_col, y_col,
                            IF x_col # None
                            THEN <<viz_type, " Plot of ", y_col, " by ", x_col>>
                            ELSE <<viz_type, " Plot of ", y_col>>)
                ELSE IF Len(num) > 0
                     THEN PxCall(df, viz_type, None, df.columns[num[1]],
                                 <<viz_type, " Plot of ", df.columns[num[1]]>>)
                     ELSE Raise("ValueError", <<"Need numeric column for ", viz_type, " plot">>)
          [] viz_type = "heatmap" ->
                IF Len(num) >= 2
                THEN Ret(Fig("imshow", None, None, <<"Correlation Heatmap">>))
                ELSE Raise("ValueError", <<"Need at least 2 numeric columns for heatmap">>)
          [] viz_type = "pie" ->
                IF x_col # None
                THEN CountsOf(df, "pie", x_col, <<"Distribution of ", x_col>>)
                ELSE CountsOf(df, "pie", firstCat, <<"Distribution of ", firstCat>>)
          [] OTHER -> DefaultChart(df, viz_type)

\* lines 175-229: the shared styling, inside the try.  It changes no data of
\* the figure, but plotly validates each property it is handed:
\*  - line 184 hands layout.showlegend the string 'auto' for every kind
\*    outside scatter, line and bar; showlegend is a boolean property;
\*  - lines 218-224 hand the traces of a bar chart a 'line' property (an
\*    empty dict), which bar traces do not have.
\* Either is rejected with ValueError.
Styling(viz_type, fig) ==
    IF viz_type \notin {"scatter", "line", "bar"}
    THEN Raise("ValueError", <<"Invalid value of type 'builtins.str' received for the ",
                               "'showlegend' property of layout">>)
    ELSE IF viz_type = "bar"
    THEN Raise("ValueError", <<"Invalid property specified for object of type ",
                               "plotly.graph_objs.Bar: 'line'">>)
    ELSE Ret(fig)

\* lines 233-236: the except branch, the "Error: ..." bar chart
ErrorChart(e) == Fig("bar", "Error", "1", <<"Error: ">> \o StrOf(e))

\* the function without its except branch: an error of the dispatch or of
\* the styling reaches the caller
RendererUncaught(df, viz_type, x_col, y_col) ==
    LET branch == ChartBranch(df, viz_type, x_col, y_col)
    IN  IF branch.raised THEN branch ELSE Styling(viz_type, branch.val)

\* the whole function: dispatch and styling inside the try, and the except
\* branch that turns any error of either into the "Error: ..." chart
generate_plotly_visualization(df, viz_type, x_col, y_col) ==
    LET branch == ChartBranch(df, viz_type, x_col, y_col)
        styled == Styling(viz_type, branch.val)
    IN  IF branch.raised THEN Ret(ErrorChart(branch.exc))
        ELSE IF styled.raised THEN Ret(ErrorChart(styled.exc))
        ELSE styled

(***************************************************************************)
(* utils.py: validate_dataframe                                            *)
(***************************************************************************)
validate_dataframe(df) ==
    IF DfEmpty(df) THEN Raise("ValueError", <<"The uploaded dataset is empty.">>)
    ELSE IF Len(df.columns) < 2
    THEN Raise("ValueError",
               <<"The dataset must have at least two columns for visualization.">>)
    ELSE IF Len(NumCols(df)) = 0
    THEN Raise("ValueError", <<"The dataset must contain at least one numeric column.">>)
    ELSE Ret(None)

(***************************************************************************)
(* src/app.py: one slot of the rendering loop (lines 124-162)              *)
(***************************************************************************)
\* attributes of plotly.express the fallback statement may name
PxFunctions == {"bar", "line", "scatter", "histogram", "box", "violin", "pie", "area"}

\* What exec(code) leaves behind.  Code written by the service can do
\* anything: raise, assign no fig (or a falsy one), assign a figure, or assign
\* a truthy object st.plotly_chart rejects.  The templated fallback statement
\* of step 3 is px.<viz_type>(df, x=<column>): it raises when px has no such
\* function or df no such column, and assigns a figure otherwise.
ExecOutcomes(code, df) ==
    IF Len(code) = 6 /\ code[3].t = "fig = px."
    THEN IF code[3].viz_type \in PxFunctions /\ HasCol(df, code[3].x)
         THEN {"usable"} ELSE {"raises"}
    \* a left-over fence marker or a return at top level does not compile
    ELSE IF \E i \in 1..Len(code) : code[i].t \in {"fence", "python", "return figure"}
    THEN {"raises"}
    \* nothing but blank lines and pass statements assigns no fig
    ELSE IF \A i \in 1..Len(code) : code[i].t # "code"
    THEN {"nofig"}
    ELSE {"raises", "nofig", "usable", "unusable"}

\* what a slot of session_state['figs'] holds
NoneSlot == [kind |-> "none"]
GeneratedSlot == [kind |-> "generated"]
ChartSlot(fig) == [kind |-> "chart", fig |-> fig]

\* the x_col and y_col expressions of lines 142-143 and 155-156
FallbackArgs(proposal) ==
    IF "columns_to_use" \in DOMAIN proposal
    THEN IF Len(proposal.columns_to_use) = 0
         THEN Raise("IndexError", <<"list index out of range">>)
         ELSE Ret(<<proposal.columns_to_use[1],
                    IF Len(proposal.columns_to_use) > 1
                    THEN proposal.columns_to_use[2] ELSE None>>)
    ELSE Ret(<<None, None>>)

\* generate_plotly_visualization(df, viz_type, x_col, y_col) as the loop calls it
DeterministicFallback(df, proposal) ==
    LET args == FallbackArgs(proposal)
    IN  IF args.raised THEN args
        ELSE generate_plotly_visualization(df, proposal.viz_type, args.val[1], args.val[2])

\* a loop that marks the slot unavailable on any error, without the fallback
RenderSlotNoFallback(df, proposal, code, outcome) ==
    IF ~code.raised /\ outcome = "usable" THEN GeneratedSlot ELSE NoneSlot

\* the slot appended for one proposal: code is step 3's outcome, outcome what
\* exec left behind (unused when step 3 raised)
RenderSlot(df, proposal, code, outcome) ==
    LET tried ==
            IF code.raised THEN code
            ELSE CASE outcome = "raises" ->
                        Raise("Exception", <<"raised by the generated code">>)
                   [] outcome = "unusable" ->
                        Raise("StreamlitAPIException", <<"not a plotly figure">>)
                   [] outcome = "usable" -> Ret(GeneratedSlot)
                   [] outcome = "nofig" ->
                        LET fig == DeterministicFallback(df, proposal)
                        IN  IF fig.raised THEN fig ELSE Ret(ChartSlot(fig.val))
    IN  IF ~tried.raised THEN tried.val
        ELSE LET fig == DeterministicFallback(df, proposal)
             IN  IF fig.raised THEN NoneSlot ELSE ChartSlot(fig.val)

(***************************************************************************)
(* Inputs of the library calls.                                            *)
(***************************************************************************)
\* descriptors handed to the prompting steps: those of two loaded tables
SampleFiles ==
    {[ext |-> "csv", format |-> "csv", header |-> <<"age", "city">>,
      kinds |-> <<"num", "text">>, nrows |-> 1],
     [ext |-> "csv", format |-> "csv", header |-> <<"city">>,
      kinds |-> <<"text">>, nrows |-> 1]}

PipelineInfos == {get_data_info(load_data(f).val) : f \in SampleFiles}

LlmText == <<"text written by the model">>

\* values a response may give for relevant_columns (names need not exist)
RelColVals ==
    {PyList(<<>>), PyList(<<"age">>), PyList(<<"city", "age">>),
     PyList(<<"ghost", "age", "city">>), PyNum}

\* dicts a step 1 response may decode to
Step1Objs ==
    {[relevant_columns |-> rc, analysis_reasoning |-> LlmText] : rc \in RelColVals}
    \cup {[relevant_columns |-> rc] : rc \in RelColVals}
    \cup {[analysis_reasoning |-> LlmText], EmptyDict}

\* entries a response may put in its proposals list
ProposalElems ==
    {[viz_type |-> "line", justification |-> LlmText, columns_to_use |-> <<"age", "city">>],
     [viz_type |-> "area", justification |-> LlmText, columns_to_use |-> <<>>],
     [chart |-> "pie"],
     NonDict}

ProposalsVals ==
    {PyList(l) : l \in SeqsUpTo(ProposalElems, MaxProposals)}
    \cup {PyStr(0), PyStr(MaxProposals), PyDict(0), PyDict(MaxProposals), PyNum}

\* dicts a step 2 response may decode to
Step2Objs == {[proposals |-> v] : v \in ProposalsVals} \cup {EmptyDict}

\* response texts around one JSON object: every token sequence up to
\* MaxTextLen, and the bare object for each dict it may decode to
TextsAround(obj, objs) ==
    SeqsUpTo({LB, RB, NL, TXT, Members(obj)}, MaxTextLen)
    \cup {<<LB, Members(o), RB>> : o \in objs}

Step1Resps ==
    {NetworkFailure} \cup
    {Reply(t) : t \in TextsAround([relevant_columns |-> PyList(<<"age">>),
                                  analysis_reasoning |-> LlmText], Step1Objs)}

Step2Resps ==
    {NetworkFailure} \cup
    {Reply(t) : t \in TextsAround([proposals |-> PyList(<<>>)], Step2Objs)}

Step3Resps ==
    {NetworkFailure} \cup
    {Reply(t) : t \in SeqsUpTo({FENCE, PY, NL, CODE, RETFIG, RETOTHER}, MaxTextLen)}

Step3Proposals ==
    {[viz_type |-> "scatter", justification |-> LlmText, columns_to_use |-> <<"age", "city">>],
     [viz_type |-> "area", justification |-> LlmText, columns_to_use |-> <<>>],
     [viz_type |-> "bar", justification |-> LlmText],
     [chart |-> "pie"]}

\* the coarse responses the whole pipeline is run on
PipelineResps(objs) ==
    {NetworkFailure, Reply(<<TXT>>), Reply(<<LB, TXT, RB>>)}
    \cup {Reply(<<LB, Members(o), RB>>) : o \in objs}

\* without a credential the service is never called
NotCalled == [ok |-> FALSE, err |-> <<"not called">>]
WithKey(resps) == ({FALSE} \X {NotCalled}) \cup ({TRUE} \X resps)

\* tables load_data returns
LoadedFrames == {load_data(f).val : f \in {g \in Files : ~load_data(g).raised}}

\* chart kinds asked of the renderer: the vocabulary and one outside it
AskedTypes == VizTypes \cup {"area"}

\* column arguments: unspecified, present in some table, absent from all
AskedCols == {None, "age", "city", "ghost"}

(***************************************************************************)
(* Library calls, one at a time: call holds the last call, its arguments   *)
(* and its outcome.                                                        *)
(***************************************************************************)
NoCall == [fn |-> "none"]

\* load_data(file), then get_data_info on the table it returned
LoadAndDescribe ==
    /\ call = NoCall
    /\ UNCHANGED appVars
    /\ \E f \in Files :
        LET out == load_data(f)
        IN  call' = [fn |-> "load_data", file |-> f, out |-> out,
                     info |-> IF out.raised THEN <<>> ELSE <<get_data_info(out.val)>>]

CallStep1 ==
    /\ call = NoCall
    /\ UNCHANGED appVars
    /\ \E kr \in WithKey(Step1Resps), info \in PipelineInfos :
        call' = [fn |-> "step1", api_key |-> kr[1], resp |-> kr[2], data_info |-> info,
                 out |-> step1_identify_relevant_columns(kr[1], kr[2], info)]

CallStep2 ==
    /\ call = NoCall
    /\ UNCHANGED appVars
    /\ \E kr \in WithKey(Step2Resps), info \in PipelineInfos, rc \in RelColVals :
        call' = [fn |-> "step2", api_key |-> kr[1], resp |-> kr[2], data_info |-> info,
                 relevant_columns |-> rc,
                 out |-> step2_select_chart_types(kr[1], kr[2], info, rc)]

CallStep3 ==
    /\ call = NoCall
    /\ UNCHANGED appVars
    /\ \E kr \in WithKey(Step3Resps), info \in PipelineInfos, p \in Step3Proposals :
        call' = [fn |-> "step3", api_key |-> kr[1], resp |-> kr[2], data_info |-> info,
                 proposal |-> p,
                 out |-> step3_generate_plotting_code(kr[1], kr[2], p, info)]

CallGenerate ==
    /\ call = NoCall
    /\ UNCHANGED appVars
    /\ \E kr \in ({FALSE} \X {NotCalled} \X {NotCalled})
                    \cup ({TRUE} \X PipelineResps(Step1Objs) \X PipelineResps(Step2Objs)),
          info \in PipelineInfos, n \in 1..MaxN :
        call' = [fn |-> "generate", api_key |-> kr[1], resp1 |-> kr[2], resp2 |-> kr[3],
                 data_info |-> info, num_proposals |-> n,
                 out |-> generate_visualization_proposals(kr[1], kr[2], kr[3], info, n)]

CallRender ==
    /\ call = NoCall
    /\ UNCHANGED appVars
    /\ \E df \in LoadedFrames, vt \in AskedTypes, x \in AskedCols, y \in AskedCols :
        call' = [fn |-> "render", df |-> df, viz_type |-> vt, x_col |-> x, y_col |-> y,
                 out |-> generate_plotly_visualization(df, vt, x, y)]

(***************************************************************************)
(* src/app.py: the script, run anew on every interaction                   *)
(***************************************************************************)
NoFile == [ext |-> "none"]

\* the files a user uploads in the session
AppFiles ==
    {[ext |-> "csv", format |-> "csv", header |-> <<"age", "city">>,
      kinds |-> <<"num", "text">>, nrows |-> 2],
     [ext |-> "csv", format |-> "csv", header |-> <<"city", "age">>,
      kinds |-> <<"text", "num">>, nrows |-> 1],
     [ext |-> "csv", format |-> "csv", header |-> <<"age">>,
      kinds |-> <<"num">>, nrows |-> 1],
     [ext |-> "xlsx", format |-> "xlsx", header |-> <<"city", "city">>,
      kinds |-> <<"text", "text">>, nrows |-> 1],
     [ext |-> "csv", format |-> "csv", header |-> <<"age", "city">>,
      kinds |-> <<"num", "text">>, nrows |-> 0],
     [ext |-> "xlsx", format |-> "other", header |-> <<>>,
      kinds |-> <<>>, nrows |-> 0]}

\* what the service answers in the session
AppStep1Resps ==
    {NetworkFailure,
     Reply(<<LB, Members([relevant_columns |-> PyList(<<"age", "city">>),
                          analysis_reasoning |-> LlmText]), RB>>),
     Reply(<<LB, Members([relevant_columns |-> PyList(<<>>),
                          analysis_reasoning |-> LlmText]), RB>>)}

AppProposalLists ==
    {<<[viz_type |-> "line", justification |-> LlmText, columns_to_use |-> <<"age", "city">>],
       [viz_type |-> "area", justification |-> LlmText, columns_to_use |-> <<>>],
       [viz_type |-> "pie", justification |-> LlmText]>>,
     <<[viz_type |-> "heatmap", justification |-> LlmText, columns_to_use |-> <<"ghost">>]>>,
     <<[viz_type |-> "bar", justification |-> LlmText, columns_to_use |-> <<"city">>],
       [viz_type |-> "scatter", columns_to_use |-> <<"age">>],
       [viz_type |-> "box", justification |-> LlmText, columns_to_use |-> <<"city", "age">>]>>,
     <<[chart |-> "pie"]>>}

AppStep2Resps ==
    {NetworkFailure} \cup
    {Reply(<<LB, Members([proposals |-> PyList(l)]), RB>>) : l \in AppProposalLists}

AppStep3Resps ==
    {NetworkFailure, Reply(<<FENCE, PY, NL, CODE, NL, RETFIG, NL, FENCE>>), Reply(<<RETFIG>>)}

NoSlot == [i |-> 0]

\* a run that met no error and called no prompting step
NoRun == [error |-> <<>>, prompted |-> <<>>]

\* the message of the exception the upload handling raises (lines 45-50),
\* <<>> when the uploader is empty or the file passes
UploadError(file) ==
    IF file = NoFile THEN <<>>
    ELSE IF load_data(file).raised THEN StrOf(load_data(file).exc)
    ELSE IF validate_dataframe(load_data(file).val).raised
         THEN StrOf(validate_dataframe(load_data(file).val).exc)
    ELSE <<>>

\* the prompting steps generate_visualization_proposals enters (lines 258-262):
\* step 1 always, step 2 when step 1 returned a dict with relevant_columns
StepsEntered(key, r1, data_info) ==
    LET step1 == step1_identify_relevant_columns(key, r1, data_info)
    IN  IF step1.raised \/ "relevant_columns" \notin DOMAIN step1.val
        THEN <<"step1">>
        ELSE <<"step1", "step2">>

\* a Generate click that leaves the cached charts in place
ClearFigsKeep(ss) == ss

\* an entry of session_state['figs']: the slot, and with it (not in the
\* program) the proposal and the dataset the slot was rendered from
FigEntry(slot, proposal, df) ==
    [slot |-> slot, rendered_from |-> [proposal |-> proposal, df |-> df]]

\* a loop that appends the slot of a proposal twice
AppendSlotTwice(figs, entry) == Append(Append(figs, entry), entry)

\* st.session_state['figs'].append(...): lines 136, 146, 159 and 162, one of
\* which ends each iteration of the loop
AppendSlot(figs, entry) == Append(figs, entry)

\* del st.session_state['figs'] when present (lines 74-75)
ClearFigs(ss) == [k \in DOMAIN ss \ {"figs"} |-> ss[k]]

\* the upload handling without the call of validate_dataframe
AcceptedUnvalidated(file) ==
    /\ file # NoFile
    /\ ~load_data(file).raised

\* the upload passes load_data and validate_dataframe (lines 45-50)
Accepted(file) ==
    /\ file # NoFile
    /\ ~load_data(file).raised
    /\ ~validate_dataframe(load_data(file).val).raised

\* a handler that stores the new proposals and dataset but keeps the
\* descriptor of an earlier generation when there is one
AfterGenerateStaleInfo(ss, key, file, generating, r1, r2) ==
    IF ~generating THEN ss
    ELSE LET df == load_data(file).val
             data_info == get_data_info(df)
             proposals == generate_visualization_proposals(key, r1, r2, data_info, 3)
         IN  SetItem(SetItem(SetItem([k \in DOMAIN ss \ {"figs"} |-> ss[k]],
                 "proposals", proposals.val.items),
                 "data_info", IF "data_info" \in DOMAIN ss THEN ss.data_info ELSE data_info),
                 "df", df)

\* lines 72-93: on a Generate click with a question, drop the cached charts,
\* describe the upload, run the pipeline and store its result
AfterGenerate(ss, key, file, generating, r1, r2) ==
    IF ~generating THEN ss
    ELSE LET df == load_data(file).val
             data_info == get_data_info(df)
             proposals == generate_visualization_proposals(key, r1, r2, data_info, 3)
         IN  SetItem(SetItem(SetItem(ClearFigs(ss),
                 "proposals", proposals.val.items),
                 "data_info", data_info),
                 "df", df)

\* lines 96-113 and 163-171: with proposals stored, build the tabs and either
\* start the rendering loop on an emptied chart list or show the cached charts
ShowProposals(ss, at) ==
    IF "proposals" \notin DOMAIN ss
    THEN [session |-> ss, pc |-> "idle", loop_i |-> at]
    \* line 109 reads viz_type of every proposal: KeyError ends the run
    ELSE IF \E i \in 1..Len(ss.proposals) : "viz_type" \notin DOMAIN ss.proposals[i]
    THEN [session |-> ss, pc |-> "idle", loop_i |-> at]
    ELSE IF "figs" \notin DOMAIN ss \/ Len(ss.figs) # 3
    THEN [session |-> SetItem(ss, "figs", <<>>),
          pc |-> IF Len(ss.proposals) = 0 THEN "select" ELSE "loop",
          loop_i |-> 1]
    ELSE [session |-> ss, pc |-> "select", loop_i |-> at]

\* what one interaction brings: the file in the uploader, whether Generate
\* was clicked, whether the question is non-empty, and what the service
\* answers to steps 1 and 2 if they are called
Interactions ==
    {[file |-> f, click |-> c, question |-> q, r1 |-> NotCalled, r2 |-> NotCalled] :
        f \in {g \in AppFiles : Accepted(g)}, c \in BOOLEAN, q \in BOOLEAN}
    \cup
    \* the question box and the button are not drawn for a rejected upload
    {[file |-> f, click |-> FALSE, question |-> FALSE, r1 |-> NotCalled, r2 |-> NotCalled] :
        f \in {g \in AppFiles \cup {NoFile} : ~Accepted(g)}}

WithAnswers(in) ==
    IF Accepted(in.file) /\ in.click /\ in.question /\ GEMINI_API_KEY
    THEN {[in EXCEPT !.r1 = a1, !.r2 = a2] : a1 \in AppStep1Resps, a2 \in AppStep2Resps}
    ELSE {in}

\* The script from its first line to the rendering loop (lines 39-113), or to
\* its end when it gets no further.
Rerun ==
    /\ pc = "idle"
    /\ \E in0 \in Interactions : \E in \in WithAnswers(in0) :
        IF ~Accepted(in.file)
        \* the landing page, or the outer handler of lines 213-217
        THEN /\ run' = [error |-> UploadError(in.file), prompted |-> <<>>]
             /\ UNCHANGED <<session, pc, loop_i>>
        ELSE \E next \in {ShowProposals(
                            AfterGenerate(session, GEMINI_API_KEY, in.file,
                                          in.click /\ in.question, in.r1, in.r2),
                            loop_i)} :
                /\ session' = next.session
                /\ pc' = next.pc
                /\ loop_i' = next.loop_i
                /\ run' = [error |-> UploadError(in.file),
                           prompted |-> IF in.click /\ in.question
                                        THEN StepsEntered(GEMINI_API_KEY, in.r1,
                                                 get_data_info(load_data(in.file).val))
                                        ELSE <<>>]
    /\ UNCHANGED <<call, GEMINI_API_KEY, selected, last_slot, pipe>>

\* One iteration of the rendering loop (lines 115-162) for proposal loop_i.
LoopStep ==
    /\ pc = "loop"
    /\ LET proposal == session.proposals[loop_i]
           df == session.df
       IN  IF "justification" \notin DOMAIN proposal
           \* line 118 raises KeyError: the outer handler ends the run
           THEN /\ pc' = "idle"
                /\ UNCHANGED <<session, loop_i, last_slot, run>>
           ELSE \E r3 \in IF GEMINI_API_KEY THEN AppStep3Resps ELSE {NotCalled} :
                \E code \in {step3_generate_plotting_code(GEMINI_API_KEY, r3, proposal,
                                                          session.data_info)} :
                \E outcome \in IF code.raised THEN {"notrun"}
                                ELSE ExecOutcomes(code.val, df) :
                \E slot \in {RenderSlot(df, proposal, code, outcome)} :
                            /\ session' = SetItem(session, "figs",
                                      AppendSlot(session.figs, FigEntry(slot, proposal, df)))
                            /\ last_slot' = [i |-> loop_i, proposal |-> proposal, df |-> df,
                                             outcome |-> outcome, slot |-> slot]
                            /\ run' = [run EXCEPT !.prompted = Append(@, "step3")]
                            /\ IF loop_i < Len(session.proposals)
                               THEN loop_i' = loop_i + 1 /\ UNCHANGED pc
                               ELSE pc' = "select" /\ UNCHANGED loop_i
    /\ UNCHANGED <<call, GEMINI_API_KEY, selected, pipe>>

\* Selection and download (lines 173-211): the radio's choice is kept as
\* widget state; the PNG export changes nothing in the session.
Select ==
    /\ pc = "select"
    /\ \E idx \in 0..2 : selected' = idx
    /\ pc' = "idle"
    /\ UNCHANGED <<call, GEMINI_API_KEY, session, loop_i, last_slot, run, pipe>>

\* no call of the pipeline under way
PipeIdle == [pc |-> "idle"]

InitCalls ==
    /\ call = NoCall
    /\ GEMINI_API_KEY = TRUE
    /\ session = EmptyDict
    /\ pc = "idle"
    /\ loop_i = 0
    /\ selected = 0
    /\ last_slot = NoSlot
    /\ run = NoRun
    /\ pipe = PipeIdle

Init ==
    /\ call = NoCall
    /\ GEMINI_API_KEY \in BOOLEAN
    /\ session = EmptyDict
    /\ pc = "idle"
    /\ loop_i = 0
    /\ selected = 0
    /\ last_slot = NoSlot
    /\ run = NoRun
    /\ pipe = PipeIdle

NextCalls ==
    LoadAndDescribe \/ CallStep1 \/ CallStep2 \/ CallStep3 \/ CallGenerate \/ CallRender

SpecCalls == InitCalls /\ [][NextCalls]_vars

Next == Rerun \/ LoopStep \/ Select

Spec == Init /\ [][Next]_vars

(***************************************************************************)
(* generate_visualization_proposals, statement by statement (lines 256-287) *)
(***************************************************************************)
\* step 2 handed every column of the descriptor instead of step 1's choice
Step2ArgumentAllColumns(step1_result, data_info) == PyList(data_info.columns)

\* lines 259 and 262: the relevant_columns step 2 is called with
Step2Argument(step1_result, data_info) == step1_result.relevant_columns

\* line 258: the call enters step 1
PipeStart ==
    /\ pipe.pc = "idle"
    /\ \E info \in PipelineInfos, n \in 1..MaxN :
        pipe' = [pc |-> "step1.model", data_info |-> info, num_proposals |-> n,
                 resp1 |-> NotCalled, resp2 |-> NotCalled,
                 events |-> <<"step1.enter">>]
    /\ UNCHANGED scriptVars

\* line 29: step 1 asks for the model before its try
PipeStep1Model ==
    /\ pipe.pc = "step1.model"
    /\ \E model \in {get_model(GEMINI_API_KEY)} :
        pipe' = IF model.raised
                THEN SetItem([pipe EXCEPT !.pc = "except",
                                          !.events = Append(@, "step1.raise")],
                             "exc", model.exc)
                ELSE [pipe EXCEPT !.pc = "step1.service"]
    /\ UNCHANGED scriptVars

\* lines 49-68: the one service call of step 1 and what step 1 returns
PipeStep1Service ==
    /\ pipe.pc = "step1.service"
    /\ \E r1 \in PipelineResps(Step1Objs) :
        pipe' = SetItem([pipe EXCEPT !.pc = "line259", !.resp1 = r1,
                                     !.events = @ \o <<"step1.service", "step1.return">>],
                        "step1_result",
                        step1_identify_relevant_columns(TRUE, r1, pipe.data_info).val)
    /\ UNCHANGED scriptVars

\* line 259 reads step1_result['relevant_columns']; line 262 enters step 2
PipeReadColumns ==
    /\ pipe.pc = "line259"
    /\ pipe' = IF "relevant_columns" \notin DOMAIN pipe.step1_result
               THEN SetItem([pipe EXCEPT !.pc = "except"], "exc",
                            [type |-> "KeyError", msg |-> <<"'relevant_columns'">>])
               ELSE SetItem([pipe EXCEPT !.pc = "step2.model",
                                         !.events = Append(@, "step2.enter")],
                            "relevant_columns",
                            Step2Argument(pipe.step1_result, pipe.data_info))
    /\ UNCHANGED scriptVars

\* line 84: step 2 asks for the model; lines 87 and 93 build the prompt
\* from relevant_columns before the try
PipeStep2Model ==
    /\ pipe.pc = "step2.model"
    /\ \E model \in {get_model(GEMINI_API_KEY)} :
        pipe' = IF model.raised
                THEN SetItem([pipe EXCEPT !.pc = "except",
                                          !.events = Append(@, "step2.raise")],
                             "exc", model.exc)
                ELSE IF pipe.relevant_columns.pytype # "list"
                THEN SetItem([pipe EXCEPT !.pc = "except",
                                          !.events = Append(@, "step2.raise")],
                             "exc", step2_select_chart_types(TRUE, NotCalled,
                                        pipe.data_info, pipe.relevant_columns).exc)
                ELSE [pipe EXCEPT !.pc = "step2.service"]
    /\ UNCHANGED scriptVars

\* lines 129-158: the one service call of step 2 and what step 2 returns
PipeStep2Service ==
    /\ pipe.pc = "step2.service"
    /\ \E r2 \in PipelineResps(Step2Objs) :
        pipe' = SetItem([pipe EXCEPT !.pc = "line265", !.resp2 = r2,
                                     !.events = @ \o <<"step2.service", "step2.return">>],
                        "proposals",
                        step2_select_chart_types(TRUE, r2, pipe.data_info,
                                                 pipe.relevant_columns).val)
    /\ UNCHANGED scriptVars

\* lines 264-276: pad, tag with step 1's reasoning, truncate and return
PipePadTag ==
    /\ pipe.pc = "line265"
    /\ \E r \in {PadTagTruncate(pipe.proposals, pipe.step1_result, pipe.num_proposals)} :
        pipe' = IF r.raised
                THEN SetItem([pipe EXCEPT !.pc = "except"], "exc", r.exc)
                ELSE SetItem([pipe EXCEPT !.pc = "done"], "out", r)
    /\ UNCHANGED scriptVars

\* lines 278-287: the complete fallback
PipeExcept ==
    /\ pipe.pc = "except"
    /\ pipe' = SetItem([pipe EXCEPT !.pc = "done"], "out",
                       Ret(CompleteFallback(pipe.data_info, pipe.exc, pipe.num_proposals)))
    /\ UNCHANGED scriptVars

NextPipeline ==
    \/ PipeStart \/ PipeStep1Model \/ PipeStep1Service \/ PipeReadColumns
    \/ PipeStep2Model \/ PipeStep2Service \/ PipePadTag \/ PipeExcept

SpecPipeline == Init /\ [][NextPipeline]_vars

(***************************************************************************)
(* Properties of load_data and get_data_info                               *)
(***************************************************************************)
\* the reader chosen for the file's extension can read its bytes
ReaderFits(f) ==
    \/ f.ext \in {"csv", "txt"} /\ f.format = "csv"
    \/ f.ext = "xlsx" /\ f.format = "xlsx"

Distinct(h) == \A i, j \in 1..Len(h) : h[i] = h[j] => i = j

C6_HeaderOnlyCsvLoads ==
    (/\ call.fn = "load_data"
     /\ call.file.ext = "csv" /\ call.file.format = "csv"
     /\ Len(call.file.header) >= 1 /\ call.file.nrows = 0)
    => /\ ~call.out.raised
       /\ Len(call.info) = 1
       /\ call.info[1].shape[1] = 0
       /\ Len(call.info[1].columns) = Len(call.file.header)

\* C7: for a well-formed file with N >= 1 rows and M >= 1 named columns,
\* load_data then get_data_info gives a descriptor with M column names in
\* file order, a type map with exactly M entries, one per column name, and
\* shape (N, M).
C7_DescriptorMatchesFile ==
    (/\ call.fn = "load_data"
     /\ ReaderFits(call.file)
     /\ Len(call.file.header) >= 1 /\ call.file.nrows >= 1)
    => /\ ~call.out.raised
       /\ Len(call.info) = 1
       /\ LET info == call.info[1]
              N == call.file.nrows
              M == Len(call.file.header)
          IN  /\ Len(info.columns) = M
              /\ \A i \in 1..M : info.columns[i] \in Range(DupName[call.file.header[i]])
              /\ Distinct(call.file.header) => info.columns = call.file.header
              /\ Cardinality(DOMAIN info.dtypes) = M
              /\ DOMAIN info.dtypes = Range(info.columns)
              /\ info.shape = <<N, M>>

\* a two-column, two-row spreadsheet with a repeated header cell was described
C7_Witness ==
    /\ call.fn = "load_data"
    /\ call.file.ext = "xlsx" /\ call.file.format = "xlsx"
    /\ call.file.header = <<"age", "age">> /\ call.file.nrows = 2
    /\ ~call.out.raised
    /\ call.info[1].shape = <<2, 2>>

(***************************************************************************)
(* Properties of the prompting steps and the pipeline                      *)
(***************************************************************************)
ProposalKeys == {"viz_type", "justification", "columns_to_use"}

\* C1: whatever the service calls do (any proposals, unparseable text,
\* network failure, missing credential), generate_visualization_proposals
\* does not raise and returns a list of exactly num_proposals entries.
C1_PipelineReturnsExactlyN ==
    call.fn = "generate" =>
        /\ ~call.out.raised
        /\ call.out.val.pytype = "list"
        /\ Len(call.out.val.items) = call.num_proposals

\* step 1's call failed, step 2 answered with a single proposal, three were asked
C1_Witness ==
    /\ call.fn = "generate"
    /\ call.api_key /\ call.resp1 = NetworkFailure
    /\ call.resp2.ok /\ Len(call.resp2.text) = 3
    /\ call.resp2.text[2].t = "members"
    /\ "proposals" \in DOMAIN call.resp2.text[2].obj
    /\ call.resp2.text[2].obj.proposals.pytype = "list"
    /\ Len(call.resp2.text[2].obj.proposals.items) = 1
    /\ call.num_proposals = 3
    /\ Len(call.out.val.items) = 3

\* C2: with a credential and a list of relevant columns, step 2 returns,
\* for any service response, exactly three proposals, each a dict with
\* viz_type, justification and columns_to_use, each viz_type in the vocabulary.
C2_Step2ThreeFromVocabulary ==
    (call.fn = "step2" /\ call.api_key /\ call.relevant_columns.pytype = "list") =>
        /\ ~call.out.raised
        /\ call.out.val.pytype = "list"
        /\ Len(call.out.val.items) = 3
        /\ \A i \in 1..Len(call.out.val.items) :
              LET p == call.out.val.items[i]
              IN  /\ IsDict(p)
                  /\ ProposalKeys \subseteq DOMAIN p
                  /\ p.viz_type \in VizTypes

\* the arguments of a step are of the types its signature names
WellTypedArgs ==
    /\ call.fn = "step2" => call.relevant_columns.pytype = "list"
    /\ call.fn = "step3" => IsDict(call.proposal) /\ "viz_type" \in DOMAIN call.proposal

NoBraces(text) == \A i \in 1..Len(text) : text[i].t \notin {"{", "}"}

\* prose between an opening and a closing brace: the span is not JSON
ProseInBraces(text) ==
    \E i, j, k \in 1..Len(text) :
        i < j /\ j < k /\ text[i].t = "{" /\ text[j].t = "txt" /\ text[k].t = "}"

\* the service call of the step failed, or its text cannot be parsed
ServiceError ==
    \/ ~call.resp.ok
    \/ call.fn \in {"step1", "step2"}
       /\ (NoBraces(call.resp.text) \/ ProseInBraces(call.resp.text))

\* the outcome is the step's hardcoded fallback
IsFallbackValue ==
    /\ ~call.out.raised
    /\ call.fn = "step1" =>
          /\ DOMAIN call.out.val = {"relevant_columns", "analysis_reasoning"}
          /\ call.out.val.relevant_columns = PyList(Take(call.data_info.columns, 2))
    /\ call.fn = "step2" =>
          /\ call.out.val.pytype = "list"
          /\ [i \in 1..Len(call.out.val.items) |-> call.out.val.items[i].viz_type]
                = <<"bar", "scatter", "histogram">>
          /\ call.out.val.items[1].justification[1]
                = "Fallback: Bar chart for comparison. Error: "
          /\ call.out.val.items[2].justification
                = <<"Fallback: Scatter plot for relationships.">>
          /\ call.out.val.items[3].justification
                = <<"Fallback: Histogram for distribution.">>
    /\ call.fn = "step3" =>
          /\ Len(call.out.val) = 6
          /\ call.out.val[3].t = "fig = px."
          /\ call.out.val[3].viz_type = call.proposal.viz_type

IsStepCall == call.fn \in {"step1", "step2", "step3"}

\* C3 as stated: no step raises, whether the credential is missing or the
\* service fails, and on a service error the step returns its fallback.
C3_StepsNeverRaise ==
    (IsStepCall /\ WellTypedArgs) =>
        /\ ~call.out.raised
        /\ (~call.api_key \/ ServiceError) => IsFallbackValue

\* C3, amended: with a credential, each step catches a failed service call and
\* an unparseable response and returns its hardcoded fallback; without a
\* credential _get_model raises before the step's try, and the step raises
\* ValueError with the configuration message to its caller.
C3_StepsCatchServiceErrors ==
    (IsStepCall /\ WellTypedArgs) =>
        /\ call.out.raised <=> ~call.api_key
        /\ call.out.raised =>
              call.out.exc = [type |-> "ValueError", msg |-> <<KeyMsg>>]
        /\ (call.api_key /\ ServiceError) => IsFallbackValue

\* step 2 was called with a credential, its response held prose in braces,
\* and it returned the three fallback proposals
C3_Witness ==
    /\ call.fn = "step2" /\ call.api_key /\ WellTypedArgs
    /\ call.resp.ok /\ ProseInBraces(call.resp.text)
    /\ IsFallbackValue

\* C4 as stated: without a credential, three proposals asked give three
\* proposals of kind bar, scatter or histogram whose reasoning text (the
\* step 1 analysis each proposal inherits) contains the configuration message.
C4_NoKeyReasoningHasMessage ==
    (call.fn = "generate" /\ ~call.api_key /\ call.num_proposals = 3) =>
        /\ ~call.out.raised
        /\ Len(call.out.val.items) = 3
        /\ \A i \in 1..Len(call.out.val.items) :
              /\ call.out.val.items[i].viz_type \in {"bar", "scatter", "histogram"}
              /\ Contains(call.out.val.items[i].step1_analysis, KeyMsg)

\* C4, amended: without a credential, three proposals asked give three equal
\* fallback proposals of kind bar; the configuration message is in each
\* justification, and the reasoning text is the fixed "Error occurred".
C4_NoKeyJustificationHasMessage ==
    (call.fn = "generate" /\ ~call.api_key /\ call.num_proposals = 3) =>
        /\ ~call.out.raised
        /\ Len(call.out.val.items) = 3
        /\ \A i \in 1..Len(call.out.val.items) :
              /\ call.out.val.items[i].viz_type = "bar"
              /\ Contains(call.out.val.items[i].justification, KeyMsg)
              /\ call.out.val.items[i].step1_analysis = <<"Error occurred">>
              /\ call.out.val.items[i].columns_to_use = Take(call.data_info.columns, 2)

\* the pipeline ran without a credential for three proposals
C4_Witness ==
    /\ call.fn = "generate" /\ ~call.api_key /\ call.num_proposals = 3
    /\ Len(call.data_info.columns) = 2
    /\ ~call.out.raised
    /\ Len(call.out.val.items) = 3

\* C8: every proposal the pipeline returns has the keys viz_type,
\* justification and step1_analysis, whatever the service returned.
C8_ReturnedProposalsHaveKeys ==
    (call.fn = "generate" /\ ~call.out.raised /\ call.out.val.pytype = "list") =>
        \A i \in 1..Len(call.out.val.items) :
            {"viz_type", "justification", "step1_analysis"}
                \subseteq DOMAIN call.out.val.items[i]

(***************************************************************************)
(* Properties of the deterministic renderer                                *)
(***************************************************************************)
\* C9: for a chart-kind tag outside the vocabulary the renderer does not
\* raise and returns the default chart: a bar chart over the first column of
\* the dataset, titled "Default Chart: <first column>".
C9_UnknownKindGivesDefaultChart ==
    (call.fn = "render" /\ call.viz_type \notin VizTypes) =>
        /\ ~call.out.raised
        /\ call.out.val.px = "bar"
        /\ call.out.val.x = call.df.columns[1]
        /\ call.out.val.title = <<"Default Chart: ", call.df.columns[1]>>

(***************************************************************************)
(* Properties of the rendering loop                                        *)
(***************************************************************************)
\* the generated code raised, or left no fig the page can show
ExecFailed == last_slot.outcome \in {"raises", "nofig", "unusable"}

\* the arguments of the deterministic fallback cannot be formed
FallbackFails ==
    /\ "columns_to_use" \in DOMAIN last_slot.proposal
    /\ last_slot.proposal.columns_to_use = <<>>

\* the chart the deterministic renderer draws for the proposal of the slot
RendererChart ==
    LET cols == IF "columns_to_use" \in DOMAIN last_slot.proposal
                THEN last_slot.proposal.columns_to_use ELSE <<>>
    IN  generate_plotly_visualization(last_slot.df, last_slot.proposal.viz_type,
            IF Len(cols) >= 1 THEN cols[1] ELSE None,
            IF Len(cols) >= 2 THEN cols[2] ELSE None).val

\* C10: in the rendering loop, when executing the generated code raises or
\* leaves no usable fig, the slot holds the deterministic renderer's chart
\* for the proposal; a slot is None only when the fallback path fails too
\* (columns_to_use is an empty list).
C10_FailedCodeFallsBackToRenderer ==
    last_slot.i > 0 =>
        /\ (ExecFailed /\ ~FallbackFails) => last_slot.slot = ChartSlot(RendererChart)
        /\ last_slot.slot = NoneSlot => FallbackFails /\ last_slot.outcome # "usable"

\* generated code raised for a proposal over two columns and the slot was
\* filled with the renderer's line chart
C10_Witness ==
    /\ last_slot.i > 0
    /\ last_slot.outcome = "raises"
    /\ last_slot.proposal.viz_type = "line"
    /\ last_slot.slot.kind = "chart"
    /\ last_slot.slot.fig.px = "line"

\* the two validation errors of validate_dataframe the upload can meet
ValidationErrors ==
    {<<"The dataset must have at least two columns for visualization.">>,
     <<"The dataset must contain at least one numeric column.">>}

\* C11: a run whose upload has fewer than two columns or no numeric column
\* ends at the validation error: it calls no prompting step (neither the
\* pipeline's steps nor, later in the run, step 3) and leaves the session's
\* proposals, data_info, df and figs as they were.
C11_InvalidUploadStopsTheRun ==
    /\ [](run.error \in ValidationErrors => pc = "idle" /\ run.prompted = <<>>)
    /\ [][(pc = "idle" /\ run'.error \in ValidationErrors) => session' = session]_vars

\* a table without a numeric column was uploaded over a session that
\* already holds proposals and charts
C11_Witness ==
    /\ run.error = <<"The dataset must contain at least one numeric column.">>
    /\ "proposals" \in DOMAIN session
    /\ "figs" \in DOMAIN session /\ Len(session.figs) = 3

(***************************************************************************)
(* Properties of step 3's cleaning                                         *)
(***************************************************************************)
\* C12: the text step3_generate_plotting_code returns never begins with a
\* code-fence marker, whatever text the service answered.
C12_Step3TextNeverStartsWithFence ==
    (call.fn = "step3" /\ ~call.out.raised) =>
        (call.out.val = <<>> \/ call.out.val[1] # FENCE)

(***************************************************************************)
(* Properties of step 1's fallback                                         *)
(***************************************************************************)
\* the tokens between the first "{" and the last "}" of the text, line
\* breaks left out (<<>> also when the text has no such pair)
BetweenBraces(text) ==
    LET opens  == {i \in 1..Len(text) : text[i].t = "{"}
        closes == {j \in 1..Len(text) : text[j].t = "}"}
        i0     == CHOOSE i \in opens : \A k \in opens : i <= k
        j0     == CHOOSE j \in closes : \A k \in closes : k <= j
    IN  IF opens = {} \/ closes = {} \/ j0 < i0 THEN <<>>
        ELSE SelectSeq(SubSeq(text, i0 + 1, j0 - 1), LAMBDA tok : tok.t # "\n")

\* the response holds no brace-delimited span
NoSpan(text) ==
    \A i, j \in 1..Len(text) : ~(i < j /\ text[i].t = "{" /\ text[j].t = "}")

\* the response holds a span, and the span is not one JSON object
MalformedSpan(text) ==
    /\ ~NoSpan(text)
    /\ BetweenBraces(text) # <<>>
    /\ ~(Len(BetweenBraces(text)) = 1 /\ BetweenBraces(text)[1].t = "members")

Step1CalledWithText == call.fn = "step1" /\ call.api_key /\ call.resp.ok

\* C13 as stated: with no span or a malformed span, step 1 returns the first
\* two column names and one fixed reasoning string, the same in both cases
\* and whatever the response or the error.
C13_Step1FallbackOneFixedReasoning ==
    (Step1CalledWithText /\ (NoSpan(call.resp.text) \/ MalformedSpan(call.resp.text))) =>
        /\ ~call.out.raised
        /\ call.out.val.relevant_columns = PyList(Take(call.data_info.columns, 2))
        /\ call.out.val.analysis_reasoning = NoParseReasoning

\* C13, amended: in both cases step 1 returns the first two column names;
\* the reasoning is the fixed string "Could not parse LLM response, using
\* first two columns." only when there is no span, and for a malformed span
\* it is "Error in step 1: " followed by the decoder's error message.
C13_Step1FallbackColumnsAndReasoning ==
    (Step1CalledWithText /\ (NoSpan(call.resp.text) \/ MalformedSpan(call.resp.text))) =>
        /\ ~call.out.raised
        /\ DOMAIN call.out.val = {"relevant_columns", "analysis_reasoning"}
        /\ call.out.val.relevant_columns = PyList(Take(call.data_info.columns, 2))
        /\ NoSpan(call.resp.text) =>
              call.out.val.analysis_reasoning = NoParseReasoning
        /\ MalformedSpan(call.resp.text) =>
              /\ Len(call.out.val.analysis_reasoning) = 2
              /\ call.out.val.analysis_reasoning[1] = "Error in step 1: "
              /\ <<call.out.val.analysis_reasoning[2]>> \in JsonErrors

\* a response with an object and a stray closing brace after it: the greedy
\* span is malformed and the reasoning carries the decoder's "Extra data"
C13_Witness ==
    /\ Step1CalledWithText
    /\ MalformedSpan(call.resp.text)
    /\ \E i \in 1..Len(call.resp.text) : call.resp.text[i].t = "members"
    /\ call.out.val.analysis_reasoning = <<"Error in step 1: ", "Extra data">>
    /\ Len(call.data_info.columns) = 2

(***************************************************************************)
(* Properties of the pipeline's order of steps                             *)
(***************************************************************************)
\* how often an event occurs in the call so far
Count(ev) == Cardinality({i \in 1..Len(pipe.events) : pipe.events[i] = ev})

\* ev occurs, and every occurrence of an event of step 2 comes after it
BeforeStep2(ev) ==
    \E i \in 1..Len(pipe.events) :
        /\ pipe.events[i] = ev
        /\ \A j \in 1..Len(pipe.events) :
              pipe.events[j] \in {"step2.enter", "step2.service", "step2.return",
                                  "step2.raise"} => i < j

Step2Entered == pipe.pc # "idle" /\ Count("step2.enter") > 0

\* the statement-by-statement run returns what the function returns
PipelineRefinesCall ==
    pipe.pc = "done" =>
        pipe.out = generate_visualization_proposals(GEMINI_API_KEY, pipe.resp1, pipe.resp2,
                                                    pipe.data_info, pipe.num_proposals)

\* C14: within one call of generate_visualization_proposals, step 1 makes at
\* most one service call and has returned before step 2 is entered, step 2
\* makes at most one service call and is called with exactly the
\* relevant_columns step 1 returned (the first two columns when step 1's
\* service call failed), and step 2 is never entered when step 1 raised.
C14_StepsInOrderWithoutRetry ==
    pipe.pc # "idle" =>
        /\ Count("step1.enter") = 1 /\ Count("step2.enter") <= 1
        /\ Count("step1.service") <= 1 /\ Count("step2.service") <= 1
        /\ Step2Entered =>
              /\ BeforeStep2("step1.return")
              /\ pipe.relevant_columns = pipe.step1_result.relevant_columns
              /\ ~pipe.resp1.ok =>
                    pipe.relevant_columns = PyList(Take(pipe.data_info.columns, 2))
        /\ Count("step1.raise") > 0 => ~Step2Entered /\ Count("step2.service") = 0
        /\ (pipe.pc = "done" /\ Count("step1.raise") = 0) => Count("step1.service") = 1

\* a call over a two-column table whose step 1 service call failed: step 2
\* ran once, after step 1 returned, with the two fallback columns
C14_Witness ==
    /\ pipe.pc = "done"
    /\ pipe.resp1 = NetworkFailure
    /\ pipe.events = <<"step1.enter", "step1.service", "step1.return",
                       "step2.enter", "step2.service", "step2.return">>
    /\ pipe.relevant_columns = PyList(<<"age", "city">>)
    /\ pipe.num_proposals = 3

(***************************************************************************)
(* Properties of step 2's fallback                                         *)
(***************************************************************************)
\* step 2 reached its service call: a credential is set and relevant_columns
\* is a list
Step2Called ==
    call.fn = "step2" /\ call.api_key /\ call.relevant_columns.pytype = "list"

\* the first k entries of the relevant columns passed in (all when fewer)
FirstRelevant(k) ==
    [i \in 1..(IF Len(call.relevant_columns.items) < k
               THEN Len(call.relevant_columns.items) ELSE k) |->
        call.relevant_columns.items[i]]

\* C15: when step 2's service call fails or its response cannot be parsed
\* (no brace-delimited span, or a span that is not JSON), step 2 returns
\* exactly three proposals of kinds bar, scatter, histogram in that order;
\* bar and scatter use the first two relevant columns passed in, histogram
\* the first one.
C15_Step2FallbackThreeFixedKinds ==
    (Step2Called /\ (~call.resp.ok \/ NoSpan(call.resp.text)
                                   \/ MalformedSpan(call.resp.text))) =>
        /\ ~call.out.raised
        /\ call.out.val.pytype = "list"
        /\ Len(call.out.val.items) = 3
        /\ call.out.val.items[1].viz_type = "bar"
        /\ call.out.val.items[2].viz_type = "scatter"
        /\ call.out.val.items[3].viz_type = "histogram"
        /\ call.out.val.items[1].columns_to_use = FirstRelevant(2)
        /\ call.out.val.items[2].columns_to_use = FirstRelevant(2)
        /\ call.out.val.items[3].columns_to_use = FirstRelevant(1)

\* the service call failed with three relevant columns passed in: the
\* histogram got one of them, bar and scatter two
C15_Witness ==
    /\ Step2Called
    /\ ~call.resp.ok
    /\ call.relevant_columns = PyList(<<"ghost", "age", "city">>)
    /\ call.out.val.items[3].columns_to_use = <<"ghost">>
    /\ call.out.val.items[1].columns_to_use = <<"ghost", "age">>

(***************************************************************************)
(* Properties of step 3's fallback                                         *)
(***************************************************************************)
\* step 3 reached its service call and the call failed
Step3ServiceFailed ==
    /\ call.fn = "step3" /\ call.api_key
    /\ IsDict(call.proposal) /\ "viz_type" \in DOMAIN call.proposal
    /\ ~call.resp.ok

\* the lines of a text: one more than its line breaks, a final break aside
LineCount(text) ==
    Cardinality({i \in 1..(Len(text) - 1) : text[i] = NL}) + 1

\* the statements of a text that assign fig through plotly express
FigStatements(text) == {i \in 1..Len(text) : text[i].t = "fig = px."}

\* the chart kind the renderer and the pipeline's fallbacks default to
DefaultKind == "bar"

\* C16 as stated: on service failure step 3 returns a single line, a
\* statement assigning to fig a chart of a default kind (a kind fixed in the
\* code, the same for every proposal).
C16_Step3FallbackSingleLineDefaultKind ==
    Step3ServiceFailed =>
        /\ ~call.out.raised
        /\ LineCount(call.out.val) = 1
        /\ \A i \in FigStatements(call.out.val) : call.out.val[i].viz_type = DefaultKind

\* C16, amended: on service failure step 3 returns, instead of raising, a
\* templated text: a comment line with the error, then exactly one statement
\* assigning to fig the plotly express chart of the proposal's own viz_type
\* over the first of its columns_to_use (the first dataset column when it
\* names none), the statement running over two lines.
C16_Step3FallbackTemplatedOnProposal ==
    Step3ServiceFailed =>
        /\ ~call.out.raised
        /\ LineCount(call.out.val) = 3
        /\ call.out.val[1].t = "# Fallback code due to error: "
        /\ call.out.val[1].err = call.resp.err
        /\ FigStatements(call.out.val) = {3}
        /\ call.out.val[3].viz_type = call.proposal.viz_type
        /\ call.out.val[3].x =
              IF "columns_to_use" \in DOMAIN call.proposal
                 /\ call.proposal.columns_to_use # <<>>
              THEN call.proposal.columns_to_use[1]
              ELSE call.data_info.columns[1]

\* the service failed for a scatter proposal: the statement draws a
\* scatter chart over the proposal's first column
C16_Witness ==
    /\ Step3ServiceFailed
    /\ call.proposal.viz_type = "scatter"
    /\ call.out.val[3].viz_type = "scatter"
    /\ call.out.val[3].x = "age"

(***************************************************************************)
(* Properties of the deterministic renderer, every kind and column         *)
(***************************************************************************)
\* a chart object: what plotly express returns
IsChart(v) == DOMAIN v = {"px", "x", "y", "title"}

\* the call names a column the dataset lacks where the branch reads it
NamesAbsentColumn ==
    \/ call.viz_type \in {"pie", "histogram"}
       /\ call.x_col # None /\ ~HasCol(call.df, call.x_col)
    \/ call.viz_type \in {"bar", "line", "scatter"}
       /\ call.x_col # None /\ call.y_col # None
       /\ (~HasCol(call.df, call.x_col) \/ ~HasCol(call.df, call.y_col))
    \/ call.viz_type \in {"box", "violin"}
       /\ call.y_col # None /\ ~HasCol(call.df, call.y_col)

\* the branch needs more numeric columns than the dataset has
LacksNumericColumns ==
    \/ call.viz_type = "heatmap" /\ Len(NumCols(call.df)) < 2
    \/ call.viz_type = "scatter" /\ (call.x_col = None \/ call.y_col = None)
       /\ Len(NumCols(call.df)) < 2
    \/ call.viz_type \in {"box", "violin"} /\ call.y_col = None
       /\ Len(NumCols(call.df)) = 0

\* C17: generate_plotly_visualization never raises and always returns a
\* chart object, for every chart-kind tag and every x_col / y_col that is
\* None, names an absent column or names a present one; a failure inside a
\* branch gives the chart titled "Error: ..." instead of an exception.
C17_RendererNeverRaises ==
    call.fn = "render" =>
        /\ ~call.out.raised
        /\ IsChart(call.out.val)
        /\ (NamesAbsentColumn \/ LacksNumericColumns) =>
              /\ call.out.val.px = "bar"
              /\ call.out.val.x = "Error"
              /\ call.out.val.title[1] = "Error: "

\* a pie chart asked over a column the dataset lacks: the KeyError became
\* the error chart
C17_Witness ==
    /\ call.fn = "render" /\ call.viz_type = "pie"
    /\ call.x_col = "ghost" /\ ~HasCol(call.df, "ghost")
    /\ call.out.val.title = <<"Error: ", "ghost">>

C19_OneSlotPerProposal ==
    /\ pc = "loop" => Len(session.figs) = loop_i - 1
    /\ pc = "select" =>
          /\ Len(session.proposals) = 3
          /\ Len(session.figs) = 3
    /\ (pc \in {"loop", "select"}) =>
          \A i \in 1..Len(session.figs) :
              /\ session.figs[i].slot.kind \in {"generated", "chart", "none"}
              /\ session.figs[i].rendered_from.proposal = session.proposals[i]

\* a completed loop whose three slots came from the three paths: the
\* generated code, the renderer, and None after the fallback failed too
C19_Witness ==
    /\ pc = "select" /\ last_slot.i = 3
    /\ {session.figs[i].slot.kind : i \in 1..3} = {"generated", "chart", "none"}

\* the stored proposals are what the pipeline returns for the stored
\* descriptor under the credential of the process and some pair of answers
GeneratedFromStoredInfo ==
    \E r1 \in AppStep1Resps \cup {NotCalled}, r2 \in AppStep2Resps \cup {NotCalled} :
        session.proposals =
            generate_visualization_proposals(GEMINI_API_KEY, r1, r2,
                                             session.data_info, 3).val.items

\* C20: the session's proposals, data_info and df are always a consistent
\* triple: they are present together, data_info is the descriptor of the
\* stored df, and the proposals are the pipeline's result for that
\* descriptor, also after another file was uploaded or a later generation
\* fell back.
C20_StoredTripleConsistent ==
    /\ {"proposals", "data_info", "df"} \cap DOMAIN session # {} =>
          {"proposals", "data_info", "df"} \subseteq DOMAIN session
    /\ "proposals" \in DOMAIN session =>
          /\ session.data_info = get_data_info(session.df)
          /\ GeneratedFromStoredInfo

\* a one-column file is in the uploader and was rejected, while the session
\* still holds the triple of an earlier generation over the city/age table
C20_Witness ==
    /\ run.error = <<"The dataset must have at least two columns for visualization.">>
    /\ "proposals" \in DOMAIN session
    /\ session.df.columns = <<"city", "age">>
    /\ session.data_info.columns = <<"city", "age">>

(***************************************************************************)
(* Properties of the calls of step 3 across runs                           *)
(***************************************************************************)
\* how often the current run has called step 3
Step3Calls == Cardinality({i \in 1..Len(run.prompted) : run.prompted[i] = "step3"})

\* the current run clicked Generate with a question: it entered the pipeline
RunGenerated == run.prompted # <<>> /\ run.prompted[1] = "step1"

\* C21: step 3 is called at most once per proposal per generation: only the
\* run that generated the stored proposals calls it, once for each of the 3
\* proposals, and a run that did not click Generate with a question calls no
\* step and shows the cached charts.
C21_Step3OncePerProposalPerGeneration ==
    /\ Step3Calls <= 3
    /\ ~RunGenerated => run.prompted = <<>>
    /\ (pc = "select" /\ RunGenerated) => Step3Calls = 3

(***************************************************************************)
(* Properties of load_data's outcomes                                      *)
(***************************************************************************)
\* the test of the caller's empty-file branch (app.py line 47): df is None
\* or df.empty; a returned value that is not a table stands for None
CallerEmptyBranch(out) ==
    ~out.raised /\ (DOMAIN out.val # {"columns", "dtypes", "nrows"} \/ DfEmpty(out.val))

FirstOpen(text) ==
    LET opens == {i \in 1..Len(text) : text[i].t = "{"}
    IN  IF opens = {} THEN 0 ELSE CHOOSE i \in opens : \A k \in opens : i <= k

\* the text's first "{" opens a well-formed JSON object
StartsWithObject(text) ==
    /\ FirstOpen(text) > 0
    /\ FirstOpen(text) + 2 <= Len(text)
    /\ text[FirstOpen(text) + 1].t = "members"
    /\ text[FirstOpen(text) + 2].t = "}"

\* a closing brace occurs in the text that follows the first object
BraceAfterObject(text) ==
    \E j \in (FirstOpen(text) + 3)..Len(text) : text[j].t = "}"

\* C23: step 1 parses the first brace-delimited span of the response: when
\* the response holds a well-formed JSON object followed by further text
\* that contains another closing brace, the first object is still the one
\* extracted and returned.
C23_FirstObjectReturnedDespiteLaterBrace ==
    (/\ Step1CalledWithText
     /\ StartsWithObject(call.resp.text)
     /\ BraceAfterObject(call.resp.text)) =>
        /\ ~call.out.raised
        /\ call.out.val = call.resp.text[FirstOpen(call.resp.text) + 1].obj

(***************************************************************************)
(* Properties of step 3's rewriting of return statements                   *)
(***************************************************************************)
\* the token is a return statement, whatever it returns
IsReturn(tok) == tok.t \in {"return fig", "return figure"}

\* C24: step 3 rewrites any value-returning statement of the service's code
\* into a no-op, so the text it returns holds no return statement, whatever
\* expression the statement returns.
C24_ReturnedCodeHasNoReturn ==
    (call.fn = "step3" /\ call.resp.ok /\ ~call.out.raised) =>
        \A i \in 1..Len(call.out.val) : ~IsReturn(call.out.val[i])

====
